---------------------------- MODULE Spec2Model ----------------------------
(***************************************************************************)
(* A model of networks.py: ConvLayer, ResidualBlock, TransformerNet,       *)
(* vgg_layers, gram_matrix and StyleContentModel.                          *)
(*                                                                         *)
(* Tensors are modelled by their shape [b, h, w, c] and, where a claim is  *)
(* about values, by an integer-valued function over their index set.       *)
(* The library layers are modelled by their documented arithmetic:         *)
(*   ZeroPadding2D(p)      adds p rows/columns on each spatial side,       *)
(*   Conv2D (valid)        out = (in - k) \div stride + 1,                 *)
(*   Conv2DTranspose(same) out = in * stride,                              *)
(*   BatchNormalization    a per-channel affine map; with training=True it *)
(*                         also moves moving_mean / moving_variance,       *)
(*   a + b                 elementwise with NumPy broadcasting.            *)
(***************************************************************************)
EXTENDS Integers, Sequences, FiniteSets, TLC

VARIABLES
    \* ---- TransformerNet (one model instance, forward calls in sequence)
    pc,         \* position inside TransformerNet.call: "idle", "L81".."L92", "done"
    inputs,     \* shape of the argument of the call in progress
    x,          \* shape of the local x of TransformerNet.call
    training,   \* the training argument: "None", "False" or "True"
    batchStat,  \* statistic of the batch the call runs on (decides the BN update)
    bn,         \* state of every BatchNormalization layer of the TransformerNet
    kern,       \* kernel/bias of every convolution of the TransformerNet
    pre,        \* one element of the final ConvLayer's output, in units of ln(2)/2
    out,        \* the same element after tanh(x) * 127.5 + 127.5, as <<num, den>>
    calls,      \* number of forward calls started on the instance
    \* ---- a stand-alone ConvLayer
    cl,         \* the constructed layer: [channels, kernel, stride]
    clpc,       \* "idle", "padded", "done", "raised"
    clIn,       \* shape of the argument of ConvLayer.call
    clX,        \* shape of the local x of ConvLayer.call
    \* ---- a stand-alone ResidualBlock, on tensors with values
    rb,         \* the constructed block: channels, strides and layer parameters
    rbpc,       \* "idle", "L22".."L29", "done", "raised"
    rbIn,       \* the argument `inputs` of ResidualBlock.call
    rbResidual, \* the local `residual`
    rbX,        \* the local `x`
    rbTrace,    \* the layers applied to x so far, in order
    \* ---- gram_matrix
    gpc,        \* "L109", "L110", "L112", "done"
    gIn,        \* input_tensor
    gResult,    \* the local `result` (the einsum)
    gNum,       \* the local `num_locations`
    gOut,       \* the value returned
    \* ---- StyleContentModel
    scmArgs,    \* the arguments of the constructor: [style_layers, content_layers]
    scm,        \* the fields of the instance, once constructed
    scmpc,      \* "new", "raised", "ready", "L131", "L140", "done", "failed"
    scmIn,      \* the argument `inputs` of StyleContentModel.call
    scmOutputs, \* the local `outputs`
    scmStyle,   \* the local `style_outputs`
    scmContent, \* the local `content_outputs`
    scmOut      \* the value returned

tnVars == <<pc, inputs, x, training, batchStat, bn, kern, pre, out, calls>>
clVars == <<cl, clpc, clIn, clX>>
rbVars == <<rb, rbpc, rbIn, rbResidual, rbX, rbTrace>>
gVars == <<gpc, gIn, gResult, gNum, gOut>>
scmVars == <<scmArgs, scm, scmpc, scmIn, scmOutputs, scmStyle, scmContent, scmOut>>
vars == <<tnVars, clVars, rbVars, gVars, scmVars>>

-----------------------------------------------------------------------------
(* Bounds of the model *)

MaxB == 2        \* batch sizes 1..MaxB
MaxH == 8        \* input heights 1..MaxH
MaxW == 4        \* input widths 1..MaxW
MaxCalls == 2    \* forward calls on one TransformerNet instance
MaxStat == 1     \* batch statistics 0..MaxStat
MaxPre == 4      \* final pre-activations -MaxPre..MaxPre (units of ln(2)/2)
MaxK == 5        \* kernel sizes 1..MaxK of the stand-alone ConvLayer
MaxStride == 2   \* strides 1..MaxStride of the stand-alone layers
MaxCH == 3       \* channel counts 1..MaxCH of the stand-alone layers
MaxTB == 1       \* batch sizes 1..MaxTB of tensors with values
MaxT == 2        \* heights and widths 1..MaxT of tensors with values
MaxVal == 1      \* tensor values are built from -MaxVal..MaxVal
MaxLayers == 2   \* style_layers and content_layers hold 0..MaxLayers names

InChannels == {1, 3}
TrainingFlags == {"None", "False", "True"}

-----------------------------------------------------------------------------
(* Shapes *)

Shape(b, h, w, c) == [b |-> b, h |-> h, w |-> w, c |-> c]

NoShape == Shape(0, 0, 0, 0)

\* layers.ZeroPadding2D(padding): padding rows and columns on every side.
ZeroPadding2D(s, padding) ==
    [s EXCEPT !.h = @ + 2 * padding, !.w = @ + 2 * padding]

\* layers.Conv2D(channels, kernel, strides=stride), padding "valid": the
\* kernel must fit into the (padded) input.
Conv2DFits(s, kernel) == s.h >= kernel[1] /\ s.w >= kernel[2]

\* (a faulty variant: padding="same" on top of the explicit padding)
Conv2DSame(s, channels, kernel, stride) ==
    Shape(s.b, (s.h + stride - 1) \div stride, (s.w + stride - 1) \div stride, channels)

Conv2D(s, channels, kernel, stride) ==
    Shape(s.b, (s.h - kernel[1]) \div stride + 1,
               (s.w - kernel[2]) \div stride + 1, channels)

\* ConvLayer.__init__: the padding is kernel[0] // 2.
\* (a faulty variant: kernel_size - 1 // 2, the division binding first)
ReflectionPaddingPrecedence(kernel) == kernel[1] - (1 \div 2)

ReflectionPadding(kernel) == kernel[1] \div 2

\* ConvLayer.call on shapes: pad, then convolve.
ConvLayerShape(s, channels, kernel, stride) ==
    Conv2D(ZeroPadding2D(s, ReflectionPadding(kernel)), channels, kernel, stride)

\* layers.Conv2DTranspose(channels, kernel_size=(3, 3), strides, padding="same").
\* (a faulty variant: padding="valid", which adds kernel - strides = 1)
Conv2DTransposeValid(s, channels, strides) ==
    Shape(s.b, s.h * strides + 1, s.w * strides + 1, channels)

Conv2DTranspose(s, channels, strides) ==
    Shape(s.b, s.h * strides, s.w * strides, channels)

\* x + residual: two dimensions are compatible when equal or when one is 1.
DimOK(m, n) == m = n \/ m = 1 \/ n = 1

Max(m, n) == IF m >= n THEN m ELSE n

BroadcastOK(s, t) ==
    DimOK(s.b, t.b) /\ DimOK(s.h, t.h) /\ DimOK(s.w, t.w) /\ DimOK(s.c, t.c)

BroadcastShape(s, t) ==
    Shape(Max(s.b, t.b), Max(s.h, t.h), Max(s.w, t.w), Max(s.c, t.c))

\* ResidualBlock.call on shapes: both convolutions are 3x3 with `strides`.
ResidualPathShape(s, channels, strides) ==
    ConvLayerShape(ConvLayerShape(s, channels, <<3, 3>>, strides),
                   channels, <<3, 3>>, strides)

ResidualBlockShape(s, channels, strides) ==
    BroadcastShape(ResidualPathShape(s, channels, strides), s)

-----------------------------------------------------------------------------
(* BatchNormalization state *)

Momentum == 99     \* keras default momentum 0.99, in hundredths

TNNorms == {"in1", "in2", "in3", "in4", "in5",
            "res1.bn1", "res1.bn2", "res2.bn1", "res2.bn2", "res3.bn1",
            "res3.bn2", "res4.bn1", "res4.bn2", "res5.bn1", "res5.bn2"}

TNConvs == {"conv1", "conv2", "conv3", "deconv1", "deconv2", "deconv3",
            "res1.conv1", "res1.conv2", "res2.conv1", "res2.conv2",
            "res3.conv1", "res3.conv2", "res4.conv1", "res4.conv2",
            "res5.conv1", "res5.conv2"}

\* A freshly built BatchNormalization layer (statistics in hundredths).
NewNorm == [gamma |-> 100, beta |-> 0, moving_mean |-> 0, moving_variance |-> 100]

\* moving = moving * momentum + batch * (1 - momentum), in hundredths.
Moving(old, batch) == (Momentum * old + (100 - Momentum) * 100 * batch) \div 100

\* The training value a layer call runs with: an explicit True, else inference.
InTraining(flag) == flag = "True"

\* (a faulty variant: the statistics move whatever the training value)
BatchNormalizationAlways(state, flag, stat) ==
    [state EXCEPT !.moving_mean = Moving(@, stat),
                  !.moving_variance = Moving(@, stat + 1)]

\* The state of a BatchNormalization layer after one call.
BatchNormalization(state, flag, stat) ==
    IF InTraining(flag)
    THEN [state EXCEPT !.moving_mean = Moving(@, stat),
                       !.moving_variance = Moving(@, stat + 1)]
    ELSE state

-----------------------------------------------------------------------------
(* tanh(x) * 127.5 + 127.5 on the grid x = n * ln(2)/2, where              *)
(* tanh(x) = (2^n - 1) / (2^n + 1) exactly.  Values are pairs <<num, den>>.*)

Pow2(n) == 2 ^ n

Tanh(n) ==
    IF n >= 0 THEN <<Pow2(n) - 1, Pow2(n) + 1>>
              ELSE <<1 - Pow2(-n), 1 + Pow2(-n)>>

\* t * 127.5 + 127.5 = (255 * num + 255 * den) / (2 * den)
\* (a faulty variant: tanh(x) * 255 + 255)
RescaleWide(t) == <<255 * t[1] + 255 * t[2], t[2]>>

Rescale(t) == <<255 * t[1] + 255 * t[2], 2 * t[2]>>

-----------------------------------------------------------------------------
(* TransformerNet *)

TNInit ==
    /\ pc = "idle"
    /\ inputs = NoShape
    /\ x = NoShape
    /\ training = "None"
    /\ batchStat = 0
    /\ bn = [l \in TNNorms |-> NewNorm]
    /\ kern = [l \in TNConvs |-> 0]
    /\ pre = 0
    /\ out = <<0, 1>>
    /\ calls = 0

\* One line "x = relu(norm(conv(x), training=training))" of the stem.
StemStage(from, to, conv, norm, channels, kernel, stride) ==
    /\ pc = from
    /\ x' = ConvLayerShape(x, channels, kernel, stride)
    /\ bn' = [bn EXCEPT ![norm] = BatchNormalization(@, training, batchStat)]
    /\ pc' = to
    /\ UNCHANGED <<inputs, training, batchStat, kern, pre, out, calls>>
    /\ UNCHANGED <<clVars, rbVars, gVars, scmVars>>

\* One line "x = self.resN(x)": the block inherits the training value of the
\* call it runs in.
ResStage(from, to, res) ==
    /\ pc = from
    /\ x' = ResidualBlockShape(x, 128, 1)
    /\ bn' = [bn EXCEPT
                ![res \o ".bn1"] = BatchNormalization(@, training, batchStat),
                ![res \o ".bn2"] = BatchNormalization(@, training, batchStat)]
    /\ pc' = to
    /\ UNCHANGED <<inputs, training, batchStat, kern, pre, out, calls>>
    /\ UNCHANGED <<clVars, rbVars, gVars, scmVars>>

\* One line "x = relu(norm(deconv(x), training=training))" of the upsampling.
UpStage(from, to, norm, channels) ==
    /\ pc = from
    /\ x' = Conv2DTranspose(x, channels, 2)
    /\ bn' = [bn EXCEPT ![norm] = BatchNormalization(@, training, batchStat)]
    /\ pc' = to
    /\ UNCHANGED <<inputs, training, batchStat, kern, pre, out, calls>>
    /\ UNCHANGED <<clVars, rbVars, gVars, scmVars>>

\* call(inputs, training): x = inputs / 255.0
TNCall ==
    /\ pc = "idle"
    /\ calls < MaxCalls
    /\ calls' = calls + 1
    /\ \E b \in 1..MaxB, h \in 1..MaxH, w \in 1..MaxW, c \in InChannels :
          /\ inputs' = Shape(b, h, w, c)
          /\ x' = Shape(b, h, w, c)
    /\ training' \in TrainingFlags
    /\ batchStat' \in 0..MaxStat
    /\ pc' = "L81"
    /\ pre' = 0
    /\ out' = <<0, 1>>
    /\ UNCHANGED <<bn, kern>>
    /\ UNCHANGED <<clVars, rbVars, gVars, scmVars>>

TNConv1 == StemStage("L81", "L82", "conv1", "in1", 32, <<9, 9>>, 1)

TNConv2 == StemStage("L82", "L83", "conv2", "in2", 64, <<3, 3>>, 2)

TNConv3 == StemStage("L83", "L84", "conv3", "in3", 128, <<3, 3>>, 2)

TNRes1 == ResStage("L84", "L85", "res1")

TNRes2 == ResStage("L85", "L86", "res2")

TNRes3 == ResStage("L86", "L87", "res3")

TNRes4 == ResStage("L87", "L88", "res4")

TNRes5 == ResStage("L88", "L89", "res5")

TNDeconv1 == UpStage("L89", "L90", "in4", 64)

TNDeconv2 == UpStage("L90", "L91", "in5", 32)

\* x = self.deconv3(x); the value of one element of the result is an input
\* of the model: it depends on the image and the weights.
TNDeconv3 ==
    /\ pc = "L91"
    /\ x' = ConvLayerShape(x, 3, <<9, 9>>, 1)
    /\ pre' \in (0 - MaxPre)..MaxPre
    /\ pc' = "L92"
    /\ UNCHANGED <<inputs, training, batchStat, bn, kern, out, calls>>
    /\ UNCHANGED <<clVars, rbVars, gVars, scmVars>>

\* x = keras.activations.tanh(x) * 127.5 + 127.5
TNTanh ==
    /\ pc = "L92"
    /\ out' = Rescale(Tanh(pre))
    /\ pc' = "done"
    /\ UNCHANGED <<inputs, x, training, batchStat, bn, kern, pre, calls>>
    /\ UNCHANGED <<clVars, rbVars, gVars, scmVars>>

\* return x: the locals of the call are gone, the layers keep their state.
TNReturn ==
    /\ pc = "done"
    /\ pc' = "idle"
    /\ inputs' = NoShape
    /\ x' = NoShape
    /\ training' = "None"
    /\ batchStat' = 0
    /\ pre' = 0
    /\ out' = <<0, 1>>
    /\ UNCHANGED <<bn, kern, calls>>
    /\ UNCHANGED <<clVars, rbVars, gVars, scmVars>>

-----------------------------------------------------------------------------
(* A stand-alone ConvLayer *)

CLIdle ==
    /\ clpc = "idle"
    /\ clIn = NoShape
    /\ clX = NoShape

CLInit ==
    /\ cl \in [channels : 1..MaxCH,
               kernel : (1..MaxK) \X (1..MaxK),
               stride : 1..MaxStride]
    /\ CLIdle

\* x = self.reflection_pad(inputs)
CLPad ==
    /\ clpc = "idle"
    /\ \E b \in 1..MaxB, h \in 1..MaxH, w \in 1..MaxW, c \in InChannels :
          /\ clIn' = Shape(b, h, w, c)
          /\ clX' = ZeroPadding2D(Shape(b, h, w, c), ReflectionPadding(cl.kernel))
    /\ clpc' = "padded"
    /\ UNCHANGED cl
    /\ UNCHANGED <<tnVars, rbVars, gVars, scmVars>>

\* x = self.conv2d(x); return x
CLConv ==
    /\ clpc = "padded"
    /\ IF Conv2DFits(clX, cl.kernel)
       THEN /\ clX' = Conv2D(clX, cl.channels, cl.kernel, cl.stride)
            /\ clpc' = "done"
       ELSE /\ clX' = NoShape
            /\ clpc' = "raised"
    /\ UNCHANGED <<cl, clIn>>
    /\ UNCHANGED <<tnVars, rbVars, gVars, scmVars>>

-----------------------------------------------------------------------------
(* Tensors with values: [shape, val], val a function over the index set *)

Indices(s) == (0..(s.b - 1)) \X (0..(s.h - 1)) \X (0..(s.w - 1)) \X (0..(s.c - 1))

\* f itself (f @@ the empty function), as an explicitly enumerated function:
\* every element of a tensor is computed once.
Enumerated(f) == f @@ [p \in {} |-> 0]

\* The tensor of shape s with the values f, a function over Indices(s).
Tensor(s, f) == [shape |-> s, val |-> Enumerated(f)]

NoTensor == Tensor(NoShape, [p \in Indices(NoShape) |-> 0])

\* The value of t at (b, i, j, c).
At(t, b, i, j, c) == t.val[<<b, i, j, c>>]

\* f[0] + ... + f[n - 1]
RECURSIVE SumTo(_, _)
SumTo(f, n) == IF n = 0 THEN 0 ELSE f[n - 1] + SumTo(f, n - 1)

\* The input tensors of the model: a constant plus a multiple of a fixed
\* pattern over the positions and channels.
Pattern(b, i, j, c) == ((b + i + 2 * j + c) % 3) - 1

InputTensor(s, v0, v1) ==
    Tensor(s, [p \in Indices(s) |-> v0 + v1 * Pattern(p[1], p[2], p[3], p[4])])

Strides == {1, 2}

InputShapes(batches, channels) ==
    {Shape(b, h, w, c) : b \in batches, h \in 1..MaxT, w \in 1..MaxT, c \in channels}

InputTensors(batches, channels, offsets) ==
    {InputTensor(s, v0, v1) :
        s \in InputShapes(batches, channels), v0 \in offsets, v1 \in 0..MaxVal}

IsZero(t) == \A p \in DOMAIN t.val : t.val[p] = 0

\* layers.ZeroPadding2D(padding) on values.
TZeroPadding2D(t, padding) ==
    LET s == ZeroPadding2D(t.shape, padding)
    IN Tensor(s,
              [p \in Indices(s) |->
                  IF /\ p[2] >= padding /\ p[2] < padding + t.shape.h
                     /\ p[3] >= padding /\ p[3] < padding + t.shape.w
                  THEN At(t, p[1], p[2] - padding, p[3] - padding, p[4])
                  ELSE 0])

\* The kernels of the model, by name: kernel[di, dj, ci, co].
KernelAt(kind, di, dj, ci, co) ==
    CASE kind = "zero" -> 0
      [] kind = "mixed" -> ((di + 2 * dj + ci + 2 * co) % 3) - 1

\* layers.Conv2D(channels, kernel, strides=stride) on values, weights w: the
\* taps (di, dj, ci) of the kernel are numbered 0 .. kh * kw * cin - 1.
TConv2D(t, w, channels, kernel, stride) ==
    LET s == Conv2D(t.shape, channels, kernel, stride)
        cin == t.shape.c
        taps == kernel[1] * kernel[2] * cin
        di(k) == k \div (kernel[2] * cin)
        dj(k) == (k \div cin) % kernel[2]
        ci(k) == k % cin
    IN Tensor(s,
              [p \in Indices(s) |->
                  w.bias + SumTo(
                      [k \in 0..(taps - 1) |->
                          At(t, p[1], p[2] * stride + di(k), p[3] * stride + dj(k), ci(k))
                              * KernelAt(w.kind, di(k), dj(k), ci(k), p[4])],
                      taps)])

\* ConvLayer.call on values.
TConvLayer(t, w, channels, kernel, stride) ==
    TConv2D(TZeroPadding2D(t, ReflectionPadding(kernel)), w, channels, kernel, stride)

\* layers.BatchNormalization on values: a per-channel affine map
\* scale * x + shift (the coefficients come from gamma, beta and the moving
\* or the batch statistics).
TBatchNormalization(t, param) ==
    Tensor(t.shape, [p \in Indices(t.shape) |-> param.scale * t.val[p] + param.shift])

\* tf.nn.relu
TRelu(t) == Tensor(t.shape, [p \in Indices(t.shape) |-> Max(t.val[p], 0)])

\* The index a broadcast dimension of extent n reads.
Clip(k, n) == IF n = 1 THEN 0 ELSE k

BroadcastAt(t, b, i, j, c) ==
    At(t, Clip(b, t.shape.b), Clip(i, t.shape.h), Clip(j, t.shape.w), Clip(c, t.shape.c))

\* (a faulty variant: the skip branch is dropped)
TAddNoSkip(t, u) == t

\* t + u, elementwise with broadcasting (defined when BroadcastOK).
TAdd(t, u) ==
    LET s == BroadcastShape(t.shape, u.shape)
    IN Tensor(s,
              [p \in Indices(s) |->
                  BroadcastAt(t, p[1], p[2], p[3], p[4])
                      + BroadcastAt(u, p[1], p[2], p[3], p[4])])

-----------------------------------------------------------------------------
(* A stand-alone ResidualBlock *)

ConvWeights == {[kind |-> "zero", bias |-> 0], [kind |-> "zero", bias |-> 1],
                [kind |-> "mixed", bias |-> 0]}

\* The coefficients of (bn1, bn2).
NormParams ==
    {<<[scale |-> 1, shift |-> 0], [scale |-> 2, shift |-> -1]>>,
     <<[scale |-> 2, shift |-> -1], [scale |-> 1, shift |-> 0]>>}

RBIdle ==
    /\ rbpc = "idle"
    /\ rbIn = NoTensor
    /\ rbResidual = NoTensor
    /\ rbX = NoTensor
    /\ rbTrace = <<>>

\* ResidualBlock(channels, strides)
RBInit ==
    /\ \E channels \in 1..MaxCH, strides \in Strides,
          conv1 \in ConvWeights, conv2 \in ConvWeights, norms \in NormParams :
          rb = [channels |-> channels, strides |-> strides,
                conv1 |-> conv1, conv2 |-> conv2,
                bn1 |-> norms[1], bn2 |-> norms[2]]
    /\ RBIdle

RBNone ==
    /\ rb = [channels |-> 1, strides |-> 1,
             conv1 |-> [kind |-> "zero", bias |-> 0],
             conv2 |-> [kind |-> "zero", bias |-> 0],
             bn1 |-> [scale |-> 1, shift |-> 0],
             bn2 |-> [scale |-> 1, shift |-> 0]]
    /\ RBIdle

RBStep(from, to, layer, result) ==
    /\ rbpc = from
    /\ rbX' = result
    /\ rbTrace' = Append(rbTrace, layer)
    /\ rbpc' = to
    /\ UNCHANGED <<rb, rbIn, rbResidual>>
    /\ UNCHANGED <<tnVars, clVars, gVars, scmVars>>

\* call(inputs): residual = inputs
RBCall ==
    /\ rbpc = "idle"
    /\ \E t \in InputTensors({1}, 1..MaxCH, {0}) :
          /\ rbIn' = t
          /\ rbResidual' = t
    /\ rbX' = NoTensor
    /\ rbTrace' = <<>>
    /\ rbpc' = "L22"
    /\ UNCHANGED rb
    /\ UNCHANGED <<tnVars, clVars, gVars, scmVars>>

\* x = self.bn1(inputs, training=training)
RBNorm1 == RBStep("L22", "L23", "bn1", TBatchNormalization(rbIn, rb.bn1))

\* x = tf.nn.relu(x)
RBRelu1 == RBStep("L23", "L24", "relu", TRelu(rbX))

\* x = self.conv1(x)
RBConv1 ==
    RBStep("L24", "L25", "conv1",
           TConvLayer(rbX, rb.conv1, rb.channels, <<3, 3>>, rb.strides))

\* x = self.bn2(x, training=training)
RBNorm2 == RBStep("L25", "L26", "bn2", TBatchNormalization(rbX, rb.bn2))

\* x = tf.nn.relu(x)
RBRelu2 == RBStep("L26", "L27", "relu", TRelu(rbX))

\* x = self.conv2(x)
RBConv2 ==
    RBStep("L27", "L29", "conv2",
           TConvLayer(rbX, rb.conv2, rb.channels, <<3, 3>>, rb.strides))

\* (a faulty variant: no broadcasting, the two shapes must be equal)
AddDefinedEqual(s, t) == s = t

\* x + residual is defined when the two shapes broadcast.
AddDefined(s, t) == BroadcastOK(s, t)

\* x = x + residual; return x
RBAdd ==
    /\ rbpc = "L29"
    /\ IF AddDefined(rbX.shape, rbResidual.shape)
       THEN /\ rbX' = TAdd(rbX, rbResidual)
            /\ rbTrace' = Append(rbTrace, "add")
            /\ rbpc' = "done"
       ELSE /\ rbX' = NoTensor
            /\ rbTrace' = rbTrace
            /\ rbpc' = "raised"
    /\ UNCHANGED <<rb, rbIn, rbResidual>>
    /\ UNCHANGED <<tnVars, clVars, gVars, scmVars>>

-----------------------------------------------------------------------------
(* gram_matrix *)

GramIndices(t) ==
    (0..(t.shape.b - 1)) \X (0..(t.shape.c - 1)) \X (0..(t.shape.c - 1))

\* (a faulty variant: "bijc,bid->bcd", the second operand read at j = 0 only)
EinsumEntryFirstColumn(t, b, c, d) ==
    LET w == t.shape.w
        n == t.shape.h * w
    IN SumTo([k \in 0..(n - 1) |->
                 At(t, b, k \div w, k % w, c) * At(t, b, k \div w, 0, d)], n)

\* einsum("bijc,bijd->bcd", t, t) at (b, c, d): the positions (i, j) are
\* numbered 0 .. h * w - 1.
EinsumEntry(t, b, c, d) ==
    LET w == t.shape.w
        n == t.shape.h * w
    IN SumTo([k \in 0..(n - 1) |->
                 At(t, b, k \div w, k % w, c) * At(t, b, k \div w, k % w, d)], n)

\* result = tf.linalg.einsum("bijc,bijd->bcd", input_tensor, input_tensor)
Einsum(t) ==
    Enumerated([p \in GramIndices(t) |-> EinsumEntry(t, p[1], p[2], p[3])])

\* num_locations = tf.cast(input_shape[1] * input_shape[2], tf.float32)
NumLocations(t) == t.shape.h * t.shape.w

\* result / num_locations: every entry becomes the fraction <<sum, n>>.
Divide(t, result, n) ==
    [shape |-> [b |-> t.shape.b, c |-> t.shape.c, d |-> t.shape.c],
     val |-> Enumerated([p \in DOMAIN result |-> <<result[p], n>>])]

GramMatrix(t) == Divide(t, Einsum(t), NumLocations(t))

NoGram ==
    [shape |-> [b |-> 0, c |-> 0, d |-> 0],
     val |-> Enumerated([p \in {} |-> <<0, 1>>])]

NoEinsum == Enumerated([p \in {} |-> 0])

GInit ==
    /\ gpc = "L109"
    /\ gIn \in InputTensors(1..MaxTB, 1..MaxCH, (0 - MaxVal)..MaxVal)
    /\ gResult = NoEinsum
    /\ gNum = 0
    /\ gOut = NoGram

GNone ==
    /\ gpc = "idle"
    /\ gIn = NoTensor
    /\ gResult = NoEinsum
    /\ gNum = 0
    /\ gOut = NoGram

\* result = tf.linalg.einsum("bijc,bijd->bcd", input_tensor, input_tensor)
GEinsum ==
    /\ gpc = "L109"
    /\ gResult' = Einsum(gIn)
    /\ gpc' = "L110"
    /\ UNCHANGED <<gIn, gNum, gOut>>
    /\ UNCHANGED <<tnVars, clVars, rbVars, scmVars>>

\* input_shape = tf.shape(input_tensor); num_locations = ...
GNumLocations ==
    /\ gpc = "L110"
    /\ gNum' = NumLocations(gIn)
    /\ gpc' = "L112"
    /\ UNCHANGED <<gIn, gResult, gOut>>
    /\ UNCHANGED <<tnVars, clVars, rbVars, scmVars>>

\* return result / (num_locations)
GDivide ==
    /\ gpc = "L112"
    /\ gOut' = Divide(gIn, gResult, gNum)
    /\ gpc' = "done"
    /\ UNCHANGED <<gIn, gResult, gNum>>
    /\ UNCHANGED <<tnVars, clVars, rbVars, scmVars>>

-----------------------------------------------------------------------------
(* vgg_layers and StyleContentModel *)

\* Layers of VGG19 (two of them) and a name VGG19 does not have.
VGGLayerNames == {"block1_conv1", "block5_conv2"}

UnknownNames == {"block9_conv9"}

\* Position of a layer in the backbone.
VGGDepth(name) ==
    CASE name = "block1_conv1" -> 1
      [] name = "block5_conv2" -> 2

\* The sequences over S of length 0..n.
SeqsUpTo(S, n) == UNION {[1..k -> S] : k \in 0..n}

Range(q) == {q[k] : k \in 1..Len(q)}

\* The images of the model, with pixel values 0 and 1 (in [0, 1]).
Images ==
    {Tensor(s, [p \in Indices(s) |->
                   IF (p[1] + p[2] + 2 * p[3] + p[4]) % (v + 1) = 0 THEN 1 ELSE 0]) :
        s \in InputShapes(1..MaxTB, {3}), v \in 0..MaxVal}

\* inputs * 255.0, then vgg19.preprocess_input: RGB -> BGR and the ImageNet
\* mean (103.939, 116.779, 123.68) subtracted; values in thousandths.
ImageNetMean == <<103939, 116779, 123680>>

PreprocessInput(t) ==
    Tensor(t.shape,
           [p \in Indices(t.shape) |->
               1000 * (255 * At(t, p[1], p[2], p[3], 2 - p[4])) - ImageNetMean[p[4] + 1]])

\* The frozen backbone: the activation of layer `name` on a preprocessed
\* image.  The pretrained weights are not part of the program; this stand-in
\* gives every layer its own channel count and its own values.
VGGOutput(name, t) ==
    LET k == VGGDepth(name)
        s == Shape(t.shape.b, t.shape.h, t.shape.w, k + 1)
    IN Tensor(s,
              [p \in Indices(s) |->
                  Max(0, (At(t, p[1], p[2], p[3], p[4] % 3) \div 50000) + p[4] + k - 2)])

\* (a faulty variant: names the backbone does not have are skipped)
VggLayersSkipUnknown(layer_names) ==
    LET Known(n) == n \in VGGLayerNames
    IN [ok |-> TRUE, outputs |-> SelectSeq(layer_names, Known)]

\* vgg_layers(layer_names): vgg.get_layer(name) raises for a name VGG19 does
\* not have; otherwise the model's outputs are the named layers, in order.
VggLayers(layer_names) ==
    IF \A k \in 1..Len(layer_names) : layer_names[k] \in VGGLayerNames
    THEN [ok |-> TRUE, outputs |-> layer_names]
    ELSE [ok |-> FALSE, outputs |-> <<>>]

NoModel ==
    [vgg |-> <<>>, style_layers |-> <<>>, content_layers |-> <<>>,
     num_style_layers |-> 0]

\* What calling the backbone returns.  tf.keras.Model([vgg.input], outputs)
\* normalizes a one-element list of outputs to that element, so a model with
\* one output returns the bare tensor, and one with several (or none) a list.
\* A value of Python is modelled as [bare, items]: the list `items`, or the
\* tensor items[1] when bare.
PyList(items) == [bare |-> FALSE, items |-> items]

PyTensor(t) == [bare |-> TRUE, items |-> <<t>>]

BackboneCall(names, t) ==
    IF Len(names) = 1
    THEN PyTensor(VGGOutput(names[1], t))
    ELSE PyList([k \in 1..Len(names) |-> VGGOutput(names[k], t)])

Min(m, n) == IF m <= n THEN m ELSE n

\* t[lo:hi] of a tensor: the batch entries lo .. hi - 1.
BatchSlice(t, lo, hi) ==
    LET from == Min(lo, t.shape.b)
        to == Max(from, Min(hi, t.shape.b))
        s == Shape(to - from, t.shape.h, t.shape.w, t.shape.c)
    IN Tensor(s, [p \in Indices(s) |-> At(t, p[1] + from, p[2], p[3], p[4])])

\* t[b] of a tensor: a tensor of rank 3.
BatchRow(t, b) ==
    [shape |-> [h |-> t.shape.h, w |-> t.shape.w, c |-> t.shape.c],
     val |-> Enumerated([p \in (0..(t.shape.h - 1)) \X (0..(t.shape.w - 1))
                                \X (0..(t.shape.c - 1)) |->
                            At(t, b, p[1], p[2], p[3])])]

\* v[lo:hi] in Python (hi = -1 stands for "to the end").
PySlice(v, lo, hi) ==
    IF v.bare
    THEN PyTensor(BatchSlice(v.items[1], lo,
                             IF hi = -1 THEN v.items[1].shape.b ELSE hi))
    ELSE LET n == Len(v.items)
             from == Min(lo, n)
             to == IF hi = -1 THEN n ELSE Max(from, Min(hi, n))
         IN PyList([k \in 1..(to - from) |-> v.items[from + k]])

\* The elements `for e in v` yields: the items of a list, the batch entries
\* of a tensor.
PyIter(v) ==
    IF v.bare
    THEN [k \in 1..v.items[1].shape.b |-> BatchRow(v.items[1], k - 1)]
    ELSE v.items

\* einsum("bijc,bijd->bcd") needs operands of rank 4.
GramDefined(t) == DOMAIN t.shape = {"b", "h", "w", "c"}

\* {name: value for name, value in zip(names, values)}: zip stops at the
\* shorter sequence, and a later pair replaces an earlier one of the same name.
Last(names, n, name) ==
    CHOOSE k \in 1..n : names[k] = name /\ \A m \in (k + 1)..n : names[m] /= name

DictOfZip(names, values) ==
    LET n == Min(Len(names), Len(values))
    IN [name \in {names[k] : k \in 1..n} |-> values[Last(names, n, name)]]

NoDict == [name \in {} |-> NoTensor]

NoResult == [content |-> NoDict, style |-> NoDict]

SCMIdle ==
    /\ scmIn = NoTensor
    /\ scmOutputs = PyList(<<>>)
    /\ scmStyle = PyList(<<>>)
    /\ scmContent = PyList(<<>>)
    /\ scmOut = NoResult

\* The caller's arguments, before StyleContentModel(style_layers, content_layers).
SCMInit ==
    /\ scmArgs \in [style_layers : SeqsUpTo(VGGLayerNames \cup UnknownNames, MaxLayers),
                    content_layers : SeqsUpTo(VGGLayerNames \cup UnknownNames, MaxLayers)]
    /\ scm = NoModel
    /\ scmpc = "new"
    /\ SCMIdle

SCMNone ==
    /\ scmArgs = [style_layers |-> <<>>, content_layers |-> <<>>]
    /\ scm = NoModel
    /\ scmpc = "none"
    /\ SCMIdle

\* StyleContentModel.__init__
SCMConstruct ==
    /\ scmpc = "new"
    /\ LET built == VggLayers(scmArgs.style_layers \o scmArgs.content_layers)
       IN IF built.ok
          THEN /\ scm' = [vgg |-> built.outputs,
                          style_layers |-> scmArgs.style_layers,
                          content_layers |-> scmArgs.content_layers,
                          num_style_layers |-> Len(scmArgs.style_layers)]
               /\ scmpc' = "ready"
          ELSE /\ scm' = NoModel
               /\ scmpc' = "raised"
    /\ UNCHANGED <<scmArgs, scmIn, scmOutputs, scmStyle, scmContent, scmOut>>
    /\ UNCHANGED <<tnVars, clVars, rbVars, gVars>>

\* call(inputs): inputs * 255.0, preprocess_input, outputs = self.vgg(...)
SCMCall ==
    /\ scmpc = "ready"
    /\ \E image \in Images :
          /\ scmIn' = image
          /\ scmOutputs' = BackboneCall(scm.vgg, PreprocessInput(image))
    /\ scmpc' = "L131"
    /\ UNCHANGED <<scmArgs, scm, scmStyle, scmContent, scmOut>>
    /\ UNCHANGED <<tnVars, clVars, rbVars, gVars>>

\* style_outputs, content_outputs = outputs[:n], outputs[n:], then
\* style_outputs = [gram_matrix(style_output) for style_output in style_outputs]
SCMSplit ==
    /\ scmpc = "L131"
    /\ LET style == PyIter(PySlice(scmOutputs, 0, scm.num_style_layers))
       IN IF \A k \in 1..Len(style) : GramDefined(style[k])
          THEN /\ scmStyle' = PyList([k \in 1..Len(style) |-> GramMatrix(style[k])])
               /\ scmContent' = PySlice(scmOutputs, scm.num_style_layers, -1)
               /\ scmpc' = "L140"
          ELSE /\ scmStyle' = PyList(<<>>)
               /\ scmContent' = PyList(<<>>)
               /\ scmpc' = "failed"
    /\ UNCHANGED <<scmArgs, scm, scmIn, scmOutputs, scmOut>>
    /\ UNCHANGED <<tnVars, clVars, rbVars, gVars>>

\* content_dict, style_dict and the return
SCMReturn ==
    /\ scmpc = "L140"
    /\ scmOut' = [content |-> DictOfZip(scm.content_layers, PyIter(scmContent)),
                  style |-> DictOfZip(scm.style_layers, PyIter(scmStyle))]
    /\ scmpc' = "done"
    /\ UNCHANGED <<scmArgs, scm, scmIn, scmOutputs, scmStyle, scmContent>>
    /\ UNCHANGED <<tnVars, clVars, rbVars, gVars>>

-----------------------------------------------------------------------------
(* Specifications *)

CLNone == cl = [channels |-> 1, kernel |-> <<1, 1>>, stride |-> 1] /\ CLIdle

Init == TNInit /\ CLNone /\ RBNone /\ GNone /\ SCMNone

Next ==
    \/ TNCall
    \/ TNConv1
    \/ TNConv2
    \/ TNConv3
    \/ TNRes1
    \/ TNRes2
    \/ TNRes3
    \/ TNRes4
    \/ TNRes5
    \/ TNDeconv1
    \/ TNDeconv2
    \/ TNDeconv3
    \/ TNTanh
    \/ TNReturn

Spec == Init /\ [][Next]_vars

InitConv == TNInit /\ CLInit /\ RBNone /\ GNone /\ SCMNone

NextConv == CLPad \/ CLConv

SpecConv == InitConv /\ [][NextConv]_vars

InitRB == TNInit /\ CLNone /\ RBInit /\ GNone /\ SCMNone

NextRB ==
    \/ RBCall
    \/ RBNorm1
    \/ RBRelu1
    \/ RBConv1
    \/ RBNorm2
    \/ RBRelu2
    \/ RBConv2
    \/ RBAdd

SpecRB == InitRB /\ [][NextRB]_vars

InitGram == TNInit /\ CLNone /\ RBNone /\ GInit /\ SCMNone

NextGram == GEinsum \/ GNumLocations \/ GDivide

SpecGram == InitGram /\ [][NextGram]_vars

InitSCM == TNInit /\ CLNone /\ RBNone /\ GNone /\ SCMInit

NextSCM == SCMConstruct \/ SCMCall \/ SCMSplit \/ SCMReturn

SpecSCM == InitSCM /\ [][NextSCM]_vars

-----------------------------------------------------------------------------
(* Claims about TransformerNet, under Spec *)

Mult4(n) == n % 4 = 0

\* The smallest multiple of 4 that is >= n.
RoundUp4(n) == 4 * ((n + 3) \div 4)

\* C1: for an input (B,H,W,3) with H and W multiples of 4, the tensor
\* TransformerNet.call returns has exactly the shape of the input.
C1_SameShapeOnMultiplesOf4 ==
    (pc = "done" /\ inputs.c = 3 /\ Mult4(inputs.h) /\ Mult4(inputs.w))
        => x = inputs

C1_Witness ==
    pc = "done" /\ inputs = Shape(2, 8, 4, 3) /\ x = Shape(2, 8, 4, 3)

\* C2 as stated: for every input height and width the output height and
\* width equal the input's, and the output has 3 channels.
C2_SameSizeForEverySize ==
    pc = "done" => (x.h = inputs.h /\ x.w = inputs.w /\ x.c = 3)

\* C2 as amended: the output height and width are the input's rounded up to
\* the next multiple of 4 (so they equal the input's exactly when those are
\* multiples of 4), the batch size is kept and the output has 3 channels.
C2_SizeRoundedUpTo4 ==
    pc = "done" =>
        /\ x.h = RoundUp4(inputs.h)
        /\ x.w = RoundUp4(inputs.w)
        /\ x.b = inputs.b
        /\ x.c = 3
        /\ (Mult4(inputs.h) <=> x.h = inputs.h)
        /\ (Mult4(inputs.w) <=> x.w = inputs.w)

C2_Witness ==
    pc = "done" /\ inputs = Shape(1, 5, 3, 1) /\ x = Shape(1, 8, 4, 3)

\* C3: the element returned is tanh(x) * 127.5 + 127.5 of the final
\* ConvLayer's output and lies in [0, 255]: 0 <= num/den <= 255.
C3_OutputIn0To255 ==
    pc = "done" =>
        /\ out = <<255 * Tanh(pre)[1] + 255 * Tanh(pre)[2], 2 * Tanh(pre)[2]>>
        /\ out[2] > 0
        /\ 0 <= out[1]
        /\ out[1] <= 255 * out[2]

\* tanh(ln 2) = 3/5, and 0.6 * 127.5 + 127.5 = 204 = 2040/10.
C3_Witness == pc = "done" /\ pre = 2 /\ out = <<2040, 10>>

\* C10 as stated: no step of a forward pass changes any kernel, bias or
\* normalization-layer state, whatever the training flag.
C10_ForwardNeverMutates == [][bn' = bn /\ kern' = kern]_vars

\* C10 as amended: no step of a forward pass changes a kernel or bias, or the
\* scale and shift of a normalization layer; with training None or False no
\* step changes any normalization-layer state (with training=True the moving
\* mean and variance of the normalization layers do move).
C10_ForwardMutatesOnlyMovingStatsInTraining ==
    [][/\ kern' = kern
       /\ \A l \in TNNorms : /\ bn'[l].gamma = bn[l].gamma
                             /\ bn'[l].beta = bn[l].beta
       /\ (~InTraining(training)) => bn' = bn]_vars

\* An inference call has completed on a model whose statistics an earlier
\* training call had moved.
C10_Witness ==
    /\ pc = "done"
    /\ training = "False"
    /\ bn = [l \in TNNorms |-> [NewNorm EXCEPT !.moving_mean = 1,
                                               !.moving_variance = 101]]

-----------------------------------------------------------------------------
(* Claims about ConvLayer, under SpecConv *)

Odd(n) == n % 2 = 1

StandardConvOut(n, k, stride) == (n + 2 * (k \div 2) - k) \div stride + 1

\* C7: a ConvLayer with a square kernel k never fails, its output size is
\* floor((H + 2*(k//2) - k)/stride) + 1 in each spatial dimension, and for
\* odd k and stride 1 the output height and width equal the input's.
C7_ConvLayerSize ==
    (cl.kernel[1] = cl.kernel[2]) =>
        /\ clpc /= "raised"
        /\ clpc = "done" =>
            /\ clX.h = StandardConvOut(clIn.h, cl.kernel[1], cl.stride)
            /\ clX.w = StandardConvOut(clIn.w, cl.kernel[1], cl.stride)
            /\ clX.b = clIn.b
            /\ clX.c = cl.channels
            /\ (Odd(cl.kernel[1]) /\ cl.stride = 1) =>
                    (clX.h = clIn.h /\ clX.w = clIn.w)

C7_Witness ==
    /\ clpc = "done"
    /\ cl.kernel = <<5, 5>>
    /\ cl.stride = 1
    /\ clIn = Shape(1, 1, 3, 3)
    /\ clX = Shape(1, 1, 3, cl.channels)

-----------------------------------------------------------------------------
(* Claims about ResidualBlock, under SpecRB *)

\* normalize, rectify, convolve, normalize, rectify, convolve
C8_ConvPath(t) ==
    TConvLayer(
        TRelu(TBatchNormalization(
            TConvLayer(TRelu(TBatchNormalization(t, rb.bn1)),
                       rb.conv1, rb.channels, <<3, 3>>, rb.strides),
            rb.bn2)),
        rb.conv2, rb.channels, <<3, 3>>, rb.strides)

ZeroWeights(w) == w.kind = "zero" /\ w.bias = 0

\* C8: ResidualBlock.call applies bn1, relu, conv1, bn2, relu, conv2 in this
\* order and returns that result plus the unmodified input; the skip branch
\* is never changed; and for an all-zero input of `channels` channels with
\* zero convolution weights and biases the output equals the input.
C8_ResidualIsPathPlusInput ==
    /\ rbResidual = rbIn
    /\ rbpc = "done" =>
        /\ rbTrace = <<"bn1", "relu", "conv1", "bn2", "relu", "conv2", "add">>
        /\ LET path == C8_ConvPath(rbIn)
           IN /\ rbX.shape = BroadcastShape(path.shape, rbIn.shape)
              /\ \A p \in Indices(rbX.shape) :
                    rbX.val[p] = BroadcastAt(path, p[1], p[2], p[3], p[4])
                                     + BroadcastAt(rbIn, p[1], p[2], p[3], p[4])
        /\ (/\ IsZero(rbIn)
            /\ rbIn.shape.c = rb.channels
            /\ ZeroWeights(rb.conv1)
            /\ ZeroWeights(rb.conv2)) => rbX = rbIn

\* A 2x2 two-channel input through a block with non-zero weights.
C8_Witness ==
    /\ rbpc = "done"
    /\ rb.channels = 2
    /\ rb.strides = 1
    /\ rb.conv1.kind = "mixed"
    /\ rb.conv2.kind = "mixed"
    /\ rbIn.shape = Shape(1, 2, 2, 2)
    /\ ~IsZero(rbIn)
    /\ rbX /= rbIn

\* The all-zero input through a block with zero weights and biases.
C8_WitnessZero ==
    /\ rbpc = "done"
    /\ IsZero(rbIn)
    /\ rbIn.shape = Shape(1, 2, 2, 2)
    /\ rb.channels = 2
    /\ ZeroWeights(rb.conv1)
    /\ ZeroWeights(rb.conv2)
    /\ rbX = rbIn

PathShape == ResidualPathShape(rbIn.shape, rb.channels, rb.strides)

\* C9 as stated: whenever the convolution path's shape differs from the
\* input's, the addition fails and no result is returned.
C9_MismatchAlwaysFails ==
    (rbpc \in {"done", "raised"} /\ PathShape /= rbIn.shape) => rbpc = "raised"

\* C9 as amended: the addition fails exactly when the two shapes do not
\* broadcast (some dimension differs and is 1 in neither); when they differ
\* but broadcast, a result of the broadcast shape is returned.
C9_MismatchFailsUnlessBroadcastable ==
    rbpc \in {"done", "raised"} =>
        /\ rbpc = "raised" <=> ~BroadcastOK(PathShape, rbIn.shape)
        /\ rbpc = "done" => rbX.shape = BroadcastShape(PathShape, rbIn.shape)
        /\ rbpc = "raised" => rbX = NoTensor

\* A two-channel input to a three-channel block: the addition fails.
C9_Witness ==
    /\ rbpc = "raised"
    /\ rb.channels = 3
    /\ rbIn.shape.c = 2

-----------------------------------------------------------------------------
(* Claims about gram_matrix, under SpecGram *)

\* The sum over all rows i and columns j of x[b,i,j,c] * x[b,i,j,d].
C5_SumOverPositions(t, b, c, d) ==
    SumTo([i \in 0..(t.shape.h - 1) |->
              SumTo([j \in 0..(t.shape.w - 1) |->
                        At(t, b, i, j, c) * At(t, b, i, j, d)], t.shape.w)],
          t.shape.h)

\* C5: gram_matrix(x) has shape (B,C,C), its entry (b,c,d) is the sum over
\* all positions of x[b,i,j,c]*x[b,i,j,d] divided by H*W, and it is
\* symmetric: entry (b,c,d) equals entry (b,d,c).
C5_GramSymmetric ==
    gpc = "done" =>
        /\ gOut.shape = [b |-> gIn.shape.b, c |-> gIn.shape.c, d |-> gIn.shape.c]
        /\ DOMAIN gOut.val = GramIndices(gIn)
        /\ \A p \in GramIndices(gIn) :
              /\ gOut.val[p] = gOut.val[<<p[1], p[3], p[2]>>]
              /\ gOut.val[p] = <<C5_SumOverPositions(gIn, p[1], p[2], p[3]),
                                 gIn.shape.h * gIn.shape.w>>

\* A 2x2 input with two channels whose Gram matrix has a non-zero
\* off-diagonal entry and two different diagonal entries.
C5_Witness ==
    /\ gpc = "done"
    /\ gIn.shape = Shape(1, 2, 2, 2)
    /\ gOut.val[<<0, 0, 1>>][1] /= 0
    /\ gOut.val[<<0, 0, 0>>] /= gOut.val[<<0, 1, 1>>]

-----------------------------------------------------------------------------
(* Claims about StyleContentModel, under SpecSCM *)

Activation(name) == VGGOutput(name, PreprocessInput(scmIn))

DictsKeyedByConfiguredNames ==
    /\ scmpc = "done"
    /\ DOMAIN scmOut.style = Range(scm.style_layers)
    /\ DOMAIN scmOut.content = Range(scm.content_layers)
    /\ \A name \in Range(scm.style_layers) :
          scmOut.style[name] = GramMatrix(Activation(name))
    /\ \A name \in Range(scm.content_layers) :
          scmOut.content[name] = Activation(name)

\* C4: for every pair of lists of valid layer names (empty lists, repeated
\* names and names in both lists included) and every input, the call returns
\* a style dictionary keyed by exactly the style names, each mapped to the
\* Gram matrix of that layer's activation, and a content dictionary keyed by
\* exactly the content names, each mapped to that layer's activation.
C4_DictsKeyedByConfiguredNames ==
    scmpc \in {"done", "failed"} => DictsKeyedByConfiguredNames

\* The same statement for the models whose backbone has no or several
\* outputs (it holds there).
SeveralOutputs_DictsKeyedByConfiguredNames ==
    (scmpc \in {"done", "failed"} /\ Len(scm.vgg) /= 1)
        => DictsKeyedByConfiguredNames

\* C6: a list with a name VGG19 does not have makes the constructor raise,
\* so every instance that exists (and every call that runs) has known names
\* only.
C6_UnknownNameFailsAtConstruction ==
    LET requested == Range(scmArgs.style_layers \o scmArgs.content_layers)
    IN /\ (scmpc /= "new" /\ ~(requested \subseteq VGGLayerNames))
              => (scmpc = "raised" /\ scm = NoModel)
       /\ scmpc \in {"ready", "L131", "L140", "done", "failed"}
              => /\ requested \subseteq VGGLayerNames
                 /\ Range(scm.style_layers) \subseteq VGGLayerNames
                 /\ Range(scm.content_layers) \subseteq VGGLayerNames
                 /\ scm.vgg = scmArgs.style_layers \o scmArgs.content_layers

C6_Witness ==
    /\ scmpc = "raised"
    /\ scmArgs.style_layers = <<"block1_conv1", "block9_conv9">>
    /\ scmArgs.content_layers = <<"block5_conv2">>

=============================================================================
